---------------------------- MODULE Spec2Model ----------------------------
(***************************************************************************)
(* Model of kandji-inc/CARL: the AutoPkg wrapper autopkg_tools.py (cache   *)
(* load, placeholder replication, recipe run loop, report parsing, Slack   *)
(* notification) and the CacheRecipeMetadata post-processor.               *)
(*                                                                         *)
(* Four specifications share the variables:                                *)
(*   SpecRepl  load_cached_attributes + create_file_and_attributes         *)
(*   SpecRec   CacheRecipeMetadata.main (+ populate_multiple_dls)          *)
(*   SpecMain  the recipe loop of main(): Recipe.__init__, handle_recipe,  *)
(*             Recipe.run, _parse_report, slack_alert                      *)
(*   SpecScan  the receipt loop of Recipe._get_pkg_version_from_receipt    *)
(* Each one leaves the variables of the others at their idle values.       *)
(***************************************************************************)
EXTENDS Integers, Sequences, FiniteSets, TLC

VARIABLES
    cacheFile,        \* content of METADATA_CACHE_PATH / output_file on disk
    \* ---- placeholder replication (autopkg_tools.py main, --cache) ----
    console_user,     \* output of `stat -f%Su /dev/console`
    fs,               \* files on disk: pathname -> [size, xattrs]
    fs0,              \* the files that were on disk before replication
    dirs,             \* directories created by replication
    attributes_dict,  \* value returned by load_cached_attributes
    ki,               \* position in `for i in attributes_dict`
    ri,               \* position in `for dl_md in ...download_metadata`
    rpc,              \* control point of the replication phase
    rlog,             \* one line per record the loop body was entered for
    \* ---- CacheRecipeMetadata processor ----
    now,              \* the wall clock read by datetime.now()
    runs,             \* processor runs so far
    cacheBefore,      \* the cache file as it was before the latest processor run
    lastRun,          \* inputs and outcome of the latest processor run
    \* ---- the recipe loop of main() ----
    debug,            \* args.debug
    webhook,          \* SLACK_WEBHOOK is set
    recipe_list,      \* the recipe identifiers of the run list
    idx,              \* recipes the loop is through with
    mpc,              \* control point of the loop
    recipe,           \* the Recipe object of the loop variable
    hist,             \* what was invoked, read and sent for that recipe
    report,           \* content of REPORT_PLIST_PATH
    posts,            \* number of messages posted to the webhook
    uncaught,         \* the exception that left main(), if any
    \* ---- the receipt scan of Recipe._get_pkg_version_from_receipt ----
    dl_mtime,         \* os.path.getmtime of the download
    has_receipts,     \* the receipts directory exists
    rcpts,            \* the receipts, in the order os.scandir yields them
    rpos,             \* receipts the loop is through with
    found_pkg,        \* the local receipt_pkg
    found_version,    \* the local receipt_version
    spc               \* control point of the scan

replVars == <<console_user, fs, fs0, dirs, attributes_dict, ki, ri, rpc, rlog>>
recVars == <<now, runs, cacheBefore, lastRun>>
mainVars == <<debug, webhook, recipe_list, idx, mpc, recipe, hist, report, posts, uncaught>>
scanVars == <<dl_mtime, has_receipts, rcpts, rpos, found_pkg, found_version, spc>>

(***************************************************************************)
(* Bounds of the model                                                     *)
(***************************************************************************)
MaxRecs == 2          \* download records in the whole cache file
MaxRuns == 1          \* processor runs after the initial cache state
MaxRecipes == 2       \* recipes in the run list
MaxReceipts == 2      \* receipts in the receipts directory

(***************************************************************************)
(* Python strings that the code slices and rewrites are sequences of       *)
(* characters.                                                             *)
(***************************************************************************)
USERS_PREFIX == <<"/","U","s","e","r","s","/">>
LIBRARY_DIR == <<"/","L","i","b","r","a","r","y">>
UserAl == <<"a","l">>
UserBob == <<"b","o","b">>
PathAl == <<"/","U","s","e","r","s","/","a","l","/","L","i","b","r","a","r","y","/","d","/","f">>
PathAlG == <<"/","U","s","e","r","s","/","a","l","/","L","i","b","r","a","r","y","/","d","/","g">>
PathBob == <<"/","U","s","e","r","s","/","b","o","b","/","L","i","b","r","a","r","y","/","d","/","f">>
PathTmp == <<"/","t","m","p","/","d","/","f">>

\* s[a:b] of Python for a >= 0 (b may be negative: counted from the end)
PySlice(s, a, b) ==
    LET n  == Len(s)
        lo == IF a > n THEN n ELSE a
        b1 == IF b < 0 THEN b + n ELSE b
        hi == IF b1 < 0 THEN 0 ELSE IF b1 > n THEN n ELSE b1
    IN  IF lo >= hi THEN << >> ELSE SubSeq(s, lo + 1, hi)

\* pat occurs in s at 0-based offset i
OccursAt(s, pat, i) ==
    /\ i >= 0
    /\ i + Len(pat) <= Len(s)
    /\ \A k \in 1..Len(pat) : s[i + k] = pat[k]

\* str.find: lowest 0-based offset of pat in s, -1 when there is none
PyFind(s, pat) ==
    LET hits == {i \in 0..Len(s) : OccursAt(s, pat, i)}
    IN  IF hits = {} THEN -1 ELSE CHOOSE i \in hits : \A j \in hits : i <= j

\* str.rfind: highest 0-based offset of pat in s, -1 when there is none
PyRFind(s, pat) ==
    LET hits == {i \in 0..Len(s) : OccursAt(s, pat, i)}
    IN  IF hits = {} THEN -1 ELSE CHOOSE i \in hits : \A j \in hits : i >= j

\* str.replace(old, new): every non-overlapping occurrence, left to right;
\* an empty `old` matches before every character and at the end
RECURSIVE PyReplaceFrom(_, _, _, _)
PyReplaceFrom(s, old, new, i) ==
    IF old = << >>
    THEN IF i > Len(s) THEN new
         ELSE new \o <<s[i]>> \o PyReplaceFrom(s, old, new, i + 1)
    ELSE IF i > Len(s) THEN << >>
         ELSE IF OccursAt(s, old, i - 1)
              THEN new \o PyReplaceFrom(s, old, new, i + Len(old))
              ELSE <<s[i]>> \o PyReplaceFrom(s, old, new, i + 1)

PyReplace(s, old, new) == PyReplaceFrom(s, old, new, 1)

\* str.rstrip("/")
RECURSIVE RStripSlash(_)
RStripSlash(s) ==
    IF s # << >> /\ s[Len(s)] = "/" THEN RStripSlash(SubSeq(s, 1, Len(s) - 1)) ELSE s

\* os.path.split (posixpath): <<head, tail>>
PathSplit(p) ==
    LET i    == PyRFind(p, <<"/">>) + 1
        head == SubSeq(p, 1, i)
        tail == SubSeq(p, i + 1, Len(p))
    IN  IF head # << >> /\ (\E k \in 1..Len(head) : head[k] # "/")
        THEN <<RStripSlash(head), tail>>
        ELSE <<head, tail>>


(***************************************************************************)
(* The metadata cache file and its records                                 *)
(***************************************************************************)
RecipeFiles == {"A.recipe", "B.recipe"}
\* order of the keys in the JSON document (dict iteration order)
KeyOrder == <<"A.recipe", "B.recipe">>

\* str(n) for the byte sizes that occur, and what mkfile reads back
SizeTexts == {<<0, "0">>, <<499999, "499999">>, <<500000, "500000">>,
              <<500001, "500001">>, <<1048576, "1048576">>, <<2097152, "2097152">>}
Sizes == {p[1] : p \in SizeTexts}
SizeStr(n) == (CHOOSE p \in SizeTexts : p[1] = n)[2]
\* the size operand of `mkfile -n '<text>'`: -1 when mkfile rejects it
MkfileSize(text) ==
    IF \E p \in SizeTexts : p[2] = text
    THEN (CHOOSE p \in SizeTexts : p[2] = text)[1]
    ELSE -1

\* dict.get(key): a record is a Python dict, a missing key reads as None
Has(d, k) == k \in DOMAIN d
\* truthiness of d.get(k) for string values
Truthy(d, k) == Has(d, k) /\ d[k] # ""
\* f"{d.get(k)}"
FmtGet(d, k) == IF Has(d, k) THEN d[k] ELSE "None"

RecFull == [pathname |-> PathAl, etag |-> "e1", last_modified |-> "m1",
              dl_size_in_bytes |-> "1048576"]
RecPlain == [pathname |-> PathAl, dl_size_in_bytes |-> "2097152"]
RecBob == [pathname |-> PathBob, etag |-> "", last_modified |-> "m1",
              dl_size_in_bytes |-> "1048576"]
RecNoPath == [etag |-> "e1", dl_size_in_bytes |-> "1048576"]
RecTmp == [pathname |-> PathTmp, etag |-> "e1", dl_size_in_bytes |-> "500001"]
RecNoSize == [pathname |-> PathAlG, etag |-> "e1", last_modified |-> "m1"]
RecordSet == {RecFull, RecPlain, RecBob, RecNoPath, RecTmp, RecNoSize}

\* a file: its reported size and its extended attributes (a dict)
ETAG_ATTR == "com.github.autopkg.etag"
LASTMOD_ATTR == "com.github.autopkg.last-modified"
NoAttrs == << >>
SetAttr(x, n, v) == [k \in DOMAIN x \cup {n} |-> IF k = n THEN v ELSE x[k]]
\* writing a file entry of the file system
PutFile(files, p, f) == [q \in DOMAIN files \cup {p} |-> IF q = p THEN f ELSE files[q]]

NoFiles == << >>
EmptyMapping == << >>
\* str(datetime.now()) at clock reading n
Stamp(n) == <<"t", n>>

\* files that may already be on disk when replication starts
InitialFiles ==
    {NoFiles,
     PutFile(NoFiles, PathBob, [size |-> 499999, xattrs |-> SetAttr(NoAttrs, ETAG_ATTR, "e0")])}

(***************************************************************************)
(* load_cached_attributes                                                  *)
(***************************************************************************)
\* json.load of the cache file: raises on an absent file (FileNotFoundError)
\* and on content that is not JSON (JSONDecodeError, a ValueError)
JsonLoad(file) ==
    CASE file.kind = "missing" -> [raised |-> "FileNotFoundError"]
      [] file.kind = "json"    -> [raised |-> "", value |-> file.data]
      [] OTHER                 -> [raised |-> "ValueError"]

load_cached_attributes(file) ==
    LET r == JsonLoad(file)
    IN  IF r.raised = "FileNotFoundError"
        THEN [raised |-> "", value |-> EmptyMapping]
        ELSE r

LoadCachedAttributes ==
    /\ rpc = "start"
    /\ LET r == load_cached_attributes(cacheFile)
       IN  IF r.raised = ""
           THEN /\ attributes_dict' = r.value
                /\ rpc' = "loop"
           ELSE /\ attributes_dict' = attributes_dict
                /\ rpc' = "load_raised"
    /\ UNCHANGED <<cacheFile, console_user, fs, fs0, dirs, ki, ri, rlog>>
    /\ UNCHANGED <<recVars, mainVars, scanVars>>

(***************************************************************************)
(* create_file_and_attributes                                              *)
(***************************************************************************)
\* keys of the loaded mapping in iteration order
KeysOf(d) == SelectSeq(KeyOrder, LAMBDA k : k \in DOMAIN d)

\* target_home_dir: the slice between "/Users/" and the last "/Library"
TargetHomeDir(cache_path) ==
    PySlice(cache_path,
            PyFind(cache_path, USERS_PREFIX) + Len(USERS_PREFIX),
            PyRFind(cache_path, LIBRARY_DIR))

\* lines 225-236: the directory and the file path the placeholder goes to
RewriteFires(pathname, user) ==
    TargetHomeDir(PathSplit(pathname)[1]) # user

RewrittenDir(pathname, user) ==
    LET cache_path == PathSplit(pathname)[1]
    IN  IF RewriteFires(pathname, user)
        THEN PyReplace(cache_path, TargetHomeDir(cache_path), user)
        ELSE cache_path

RewrittenPath(pathname, user) ==
    IF RewriteFires(pathname, user)
    THEN PyReplace(pathname, TargetHomeDir(PathSplit(pathname)[1]), user)
    ELSE pathname

\* WritePlaceholder with the last-modified write nested under the etag test
WritePlaceholder_Nested(files, p, dl_md) ==
    LET old == IF p \in DOMAIN files THEN files[p].xattrs ELSE NoAttrs
        x1  == IF Truthy(dl_md, "etag") THEN SetAttr(old, ETAG_ATTR, dl_md.etag) ELSE old
        x2  == IF Truthy(dl_md, "etag") /\ Truthy(dl_md, "last_modified")
               THEN SetAttr(x1, LASTMOD_ATTR, dl_md.last_modified) ELSE x1
    IN  PutFile(files, p, [size |-> MkfileSize(FmtGet(dl_md, "dl_size_in_bytes")), xattrs |-> x2])

\* lines 244-251: mkfile -n, then the two xattr -w, on the file at path p
WritePlaceholder(files, p, dl_md) ==
    LET old == IF p \in DOMAIN files THEN files[p].xattrs ELSE NoAttrs
        x1  == IF Truthy(dl_md, "etag") THEN SetAttr(old, ETAG_ATTR, dl_md.etag) ELSE old
        x2  == IF Truthy(dl_md, "last_modified")
               THEN SetAttr(x1, LASTMOD_ATTR, dl_md.last_modified) ELSE x1
    IN  PutFile(files, p, [size |-> MkfileSize(FmtGet(dl_md, "dl_size_in_bytes")), xattrs |-> x2])

\* the exception classes the body's try statement catches (line 254)
CaughtInBody == {"TypeError"}

\* what the try body raises for a record: "" when it runs to its end
BodyRaises(dl_md) ==
    IF ~Has(dl_md, "pathname") THEN "TypeError"
    ELSE IF MkfileSize(FmtGet(dl_md, "dl_size_in_bytes")) < 0 THEN "CalledProcessError"
    ELSE ""

CurKey == KeysOf(attributes_dict)[ki]
CurEntry == attributes_dict[CurKey]

\* position after record ri of the current entry
StepOver ==
    IF ri < Len(CurEntry.download_metadata)
    THEN /\ ri' = ri + 1 /\ ki' = ki
    ELSE /\ ri' = 0 /\ ki' = ki + 1

\* `for dl_md in attributes_dict.get(i).get("download_metadata")`: the
\* iterable is evaluated outside the try statement
EnterEntry ==
    /\ rpc = "loop"
    /\ ki <= Len(KeysOf(attributes_dict))
    /\ ri = 0
    /\ IF ~Has(CurEntry, "download_metadata")
       THEN /\ rpc' = "repl_raised"
            /\ UNCHANGED <<ki, ri>>
       ELSE /\ rpc' = rpc
            /\ IF Len(CurEntry.download_metadata) = 0
               THEN /\ ki' = ki + 1 /\ ri' = 0
               ELSE /\ ki' = ki /\ ri' = 1
    /\ UNCHANGED <<cacheFile, console_user, fs, fs0, dirs, attributes_dict, rlog>>
    /\ UNCHANGED <<recVars, mainVars, scanVars>>

\* one pass of the loop body, lines 219-258
ReplicateRecord ==
    /\ rpc = "loop"
    /\ ki <= Len(KeysOf(attributes_dict))
    /\ ri >= 1
    /\ LET dl_md == CurEntry.download_metadata[ri]
           exc   == BodyRaises(dl_md)
       IN  IF ~Has(dl_md, "pathname")
           THEN \* os.path.split(None) raises before anything is touched
                /\ UNCHANGED <<fs, dirs>>
                /\ rlog' = Append(rlog, [key |-> CurKey, rec |-> dl_md, outcome |-> exc,
                                         path |-> << >>, rewritten |-> FALSE])
                /\ IF exc \in CaughtInBody
                   THEN /\ rpc' = rpc /\ StepOver
                   ELSE /\ rpc' = "repl_raised" /\ UNCHANGED <<ki, ri>>
           ELSE LET p == RewrittenPath(dl_md.pathname, console_user)
                    d == RewrittenDir(dl_md.pathname, console_user)
                IN  /\ dirs' = dirs \cup {d}
                    /\ rlog' = Append(rlog, [key |-> CurKey, rec |-> dl_md, outcome |-> exc,
                                             path |-> p,
                                             rewritten |-> RewriteFires(dl_md.pathname, console_user)])
                    /\ IF exc = ""
                       THEN /\ fs' = WritePlaceholder(fs, p, dl_md)
                            /\ rpc' = rpc /\ StepOver
                       ELSE /\ fs' = fs
                            /\ IF exc \in CaughtInBody
                               THEN /\ rpc' = rpc /\ StepOver
                               ELSE /\ rpc' = "repl_raised" /\ UNCHANGED <<ki, ri>>
    /\ UNCHANGED <<cacheFile, console_user, fs0, attributes_dict>>
    /\ UNCHANGED <<recVars, mainVars, scanVars>>

\* the outer loop is exhausted: create_file_and_attributes returns
ReplicationReturns ==
    /\ rpc = "loop"
    /\ ki > Len(KeysOf(attributes_dict))
    /\ rpc' = "done"
    /\ UNCHANGED <<cacheFile, console_user, fs, fs0, dirs, attributes_dict, ki, ri, rlog>>
    /\ UNCHANGED <<recVars, mainVars, scanVars>>

\* cache documents of at most MaxRecs records in all
EntriesOf(n) ==
    {[download_metadata |-> m] : m \in [1..n -> RecordSet]}
      \cup (IF n = 0 THEN {[cache_timestamp |-> Stamp(0)]} ELSE {})

CacheDocs ==
    UNION {UNION {
        {[k \in {"A.recipe", "B.recipe"} |-> IF k = "A.recipe" THEN a ELSE b]
            : a \in EntriesOf(na), b \in EntriesOf(nb)}
          \cup (IF nb = 0 THEN {[k \in {"A.recipe"} |-> a] : a \in EntriesOf(na)} ELSE {})
        : nb \in 0..(MaxRecs - na)} : na \in 0..MaxRecs}

CacheFiles ==
    {[kind |-> "missing"], [kind |-> "empty"], [kind |-> "garbage"]}
      \cup {[kind |-> "json", data |-> d] : d \in CacheDocs \cup {EmptyMapping}}

ReplInit ==
    /\ console_user \in {UserAl, UserBob}
    /\ fs0 \in InitialFiles
    /\ fs = fs0
    /\ dirs = {}
    /\ attributes_dict = EmptyMapping
    /\ ki = 1
    /\ ri = 0
    /\ rpc = "start"
    /\ rlog = << >>

ReplIdle ==
    /\ console_user = UserAl
    /\ fs0 = NoFiles
    /\ fs = NoFiles
    /\ dirs = {}
    /\ attributes_dict = EmptyMapping
    /\ ki = 1
    /\ ri = 0
    /\ rpc = "idle"
    /\ rlog = << >>

(***************************************************************************)
(* CacheRecipeMetadata: the post-run processor                             *)
(***************************************************************************)
\* minimum byte size of a bonus download (line 143)
MIN_DL_SIZE == 500000

\* candidate files of a recipe's downloads directory: `top` is the entry of
\* the directory the file lives under (its own name, or a subdirectory)
FileApp == [path |-> "downloads/app.dmg", top |-> "app.dmg", size |-> 2097152]
FileEmpty == [path |-> "downloads/empty.dmg", top |-> "empty.dmg", size |-> 0]
FilePart == [path |-> "downloads/tmp.part", top |-> "tmp.part", size |-> 500000]
FileZip == [path |-> "downloads/sub/extra.zip", top |-> "sub", size |-> 500001]
\* os.walk order of the candidates
WalkOrder == <<FileApp, FileEmpty, FilePart, FileZip>>
DirFiles == {WalkOrder[i] : i \in 1..Len(WalkOrder)}

\* _run_command of the processor: the command line is split into a list and
\* run with shell=True, so the shell runs the first word alone; the output is
\* that of the bare command and does not depend on the file named after it
BareCommandOutputs == {"", "usage: xattr"}
FILE_USAGE == "Usage: file"
\* `"archive" in t or "compressed" in t`
ArchiveTexts == {"Zip archive data", "gzip compressed data"}
LooksArchived(t) == t \in ArchiveTexts

\* get_latest_recipe_run_info: OSError and ValueError both load as {}
get_latest_recipe_run_info(file) ==
    LET r == JsonLoad(file)
    IN  IF r.raised \in {"FileNotFoundError", "ValueError"} THEN EmptyMapping ELSE r.value

\* the dict built for one accepted candidate, lines 166-180
BonusRecord(f, xattr_out) ==
    LET d0 == [pathname |-> f.path]
        d1 == IF xattr_out # "" THEN [k \in DOMAIN d0 \cup {"url", "etag", "last_modified"} |->
                                        IF k \in DOMAIN d0 THEN d0[k] ELSE xattr_out]
              ELSE d0
    IN  IF f.size # 0
        THEN [k \in DOMAIN d1 \cup {"dl_size_in_bytes"} |->
                IF k = "dl_size_in_bytes" THEN SizeStr(f.size) ELSE d1[k]]
        ELSE d1

\* line 143 with `>=` for `>`
IsCandidate_AtLeast(f, known_dl) == f.size >= MIN_DL_SIZE /\ f.path # known_dl

\* line 143: the size and path test a walked file must pass
IsCandidate(f, known_dl) == f.size > MIN_DL_SIZE /\ f.path # known_dl

\* populate_multiple_dls over the files of the directory, in walk order
RECURSIVE ScanFrom(_, _, _, _, _)
ScanFrom(files, known_dl, xattr_out, file_out, i) ==
    IF i > Len(WalkOrder) THEN << >>
    ELSE LET f    == WalkOrder[i]
             rest == ScanFrom(files, known_dl, xattr_out, file_out, i + 1)
         IN  IF /\ f \in files
                /\ IsCandidate(f, known_dl)
                /\ (xattr_out # "" \/ LooksArchived(file_out))
             THEN <<BonusRecord(f, xattr_out)>> \o rest
             ELSE rest

populate_multiple_dls(files, known_dl, xattr_out, file_out) ==
    ScanFrom(files, known_dl, xattr_out, file_out, 1)

\* first_download_dict, lines 219-238
PrimaryRecord(in, size) ==
    LET want == (IF in.url # "" THEN {"url"} ELSE {})
                  \cup (IF in.pathname # "" THEN {"pathname"} ELSE {})
                  \cup (IF in.etag # "" THEN {"etag"} ELSE {})
                  \cup (IF in.last_modified # "" THEN {"last_modified"} ELSE {})
                  \cup (IF size # 0 THEN {"dl_size_in_bytes"} ELSE {})
    IN  [k \in want |->
            CASE k = "url" -> in.url
              [] k = "pathname" -> in.pathname
              [] k = "etag" -> in.etag
              [] k = "last_modified" -> in.last_modified
              [] k = "dl_size_in_bytes" -> SizeStr(size)]

\* the bonus list main() gets: the scan runs only when the downloads
\* directory lists more than one entry (line 246)
BonusList(in) ==
    IF Cardinality({f.top : f \in in.files}) > 1
    THEN populate_multiple_dls(in.files, in.pathname, in.xattr_out, FILE_USAGE)
    ELSE << >>

\* cache_modified at line 255
CacheModified(in, size) ==
    in.etag # "" \/ in.last_modified # "" \/ size # 0 \/ BonusList(in) # << >>

\* the recipe's entry after lines 216-258
UpdatedEntry(old, in, size, clock) ==
    LET keys == DOMAIN old \cup {"download_metadata"}
                  \cup (IF CacheModified(in, size) THEN {"cache_timestamp"} ELSE {})
    IN  [k \in keys |->
            CASE k = "download_metadata" -> <<PrimaryRecord(in, size)>> \o BonusList(in)
              [] k = "cache_timestamp" /\ CacheModified(in, size) -> Stamp(clock)
              [] OTHER -> old[k]]

\* the document written back keeps nothing but the current recipe's key
MergedDocument_OnlyCurrent(data, recipe_filename, entry) ==
    [k \in {recipe_filename} |-> entry]

\* the document written back at lines 261-262: data with the recipe's key set
MergedDocument(data, recipe_filename, entry) ==
    [k \in DOMAIN data \cup {recipe_filename} |-> IF k = recipe_filename THEN entry ELSE data[k]]

\* os.path.split(RECIPE_PATH)[1]
RecipeFilename(recipe_path) == recipe_path[2]

\* what the environment hands one processor run
RecipePaths == {<<"recipes/a", "A.recipe">>, <<"recipes/b", "B.recipe">>}
PrimaryInputs ==
    {[url |-> "u1", etag |-> "e1", last_modified |-> "m1"],
     [url |-> "",   etag |-> "",   last_modified |-> "m1"],
     [url |-> "",   etag |-> "",   last_modified |-> ""]}
RunInputs ==
    {[RECIPE_PATH |-> r, pathname |-> pn, url |-> p.url, etag |-> p.etag,
      last_modified |-> p.last_modified, files |-> fl, xattr_out |-> x] :
        r \in RecipePaths, pn \in {FileApp.path, FileEmpty.path}, p \in PrimaryInputs,
        fl \in SUBSET DirFiles, x \in BareCommandOutputs}

\* CacheRecipeMetadata.main, lines 185-264
ProcessorMain ==
    /\ runs < MaxRuns
    /\ \E in \in RunInputs :
          LET present == {f \in in.files : f.path = in.pathname}
              rf      == RecipeFilename(in.RECIPE_PATH)
          IN  IF present = {}
              THEN \* os.path.getsize(pathname) raises: nothing is read or written
                   /\ cacheFile' = cacheFile
                   /\ lastRun' = [raised |-> TRUE, in |-> in, bonus |-> << >>, scanned |-> FALSE]
              ELSE LET size  == (CHOOSE f \in present : TRUE).size
                       data  == get_latest_recipe_run_info(cacheFile)
                       old   == IF rf \in DOMAIN data THEN data[rf] ELSE EmptyMapping
                       entry == UpdatedEntry(old, in, size, now)
                   IN  /\ cacheFile' = [kind |-> "json", data |-> MergedDocument(data, rf, entry)]
                       /\ lastRun' = [raised |-> FALSE, in |-> in, bonus |-> BonusList(in),
                                      scanned |-> Cardinality({f.top : f \in in.files}) > 1]
    /\ cacheBefore' = cacheFile
    /\ now' = now + 1
    /\ runs' = runs + 1
    /\ UNCHANGED <<replVars, mainVars, scanVars>>

\* the entry an earlier run left for a recipe
PriorEntry == UpdatedEntry(EmptyMapping,
                  [pathname |-> FileApp.path, url |-> "u1", etag |-> "e1", last_modified |-> "m1",
                   files |-> {FileApp}, xattr_out |-> ""], FileApp.size, 0)

RecCacheFiles ==
    {[kind |-> "missing"], [kind |-> "empty"], [kind |-> "garbage"],
     [kind |-> "json", data |-> EmptyMapping],
     [kind |-> "json", data |-> [k \in {"A.recipe"} |-> PriorEntry]],
     [kind |-> "json", data |-> [k \in {"B.recipe"} |-> PriorEntry]],
     [kind |-> "json", data |-> [k \in {"A.recipe", "B.recipe"} |-> PriorEntry]]}

NoRun == [raised |-> FALSE, in |-> << >>, bonus |-> << >>, scanned |-> FALSE]

RecInit ==
    /\ now = 1
    /\ runs = 0
    /\ cacheBefore = cacheFile
    /\ lastRun = NoRun

RecIdle ==
    /\ now = 1
    /\ runs = 0
    /\ cacheBefore = [kind |-> "missing"]
    /\ lastRun = NoRun

(***************************************************************************)
(* The completion report (REPORT_PLIST_PATH) and _parse_report             *)
(***************************************************************************)
\* Strings that _parse_report joins are sequences of whole strings: a single
\* key or path is a sequence of length one, "".join(...) concatenates.
RECURSIVE JoinAll(_)
JoinAll(parts) == IF parts = << >> THEN << >> ELSE Head(parts) \o JoinAll(Tail(parts))

\* fnmatch(x, "*pkg*") on the summary keys and on the download paths that occur
URL_DOWNLOADER == "url_downloader_summary_result"
SummaryKeyOrder == <<"url_downloader_summary_result", "pkg_creator_summary_result",
                     "pkg_copier_summary_result">>
PkgLikeTexts == {"pkg_creator_summary_result", "pkg_copier_summary_result",
                 "dl/App-2.1.pkg", "dl/Extra.pkg"}
MatchesPkg(text) == text \in PkgLikeTexts

PathDmg == <<"dl/App.dmg">>
PathPkg == <<"dl/App-2.1.pkg">>
PathPkg2 == <<"dl/Extra.pkg">>
PathBuilt == <<"pkgs/App-1.0.pkg">>

\* dict.get(k, default)
GetOr(d, k, default) == IF k \in DOMAIN d THEN d[k] ELSE default
EmptyDict == << >>
IsEmpty(d) == DOMAIN d = {}

\* plistlib.load of a file: an empty or otherwise unreadable file raises
\* InvalidFileException (a ValueError), an absent one FileNotFoundError
plist_pal(file) ==
    CASE file.kind = "plist"  -> [raised |-> "", value |-> file.data]
      [] file.kind = "absent" -> [raised |-> "FileNotFoundError"]
      [] OTHER                -> [raised |-> "ValueError"]

\* _get_pkg_version_from_receipt, lines 386-413: one receipt after another;
\* `versions` and `pkg_paths` are the two list comprehensions of a receipt
RECURSIVE ScanReceipts(_, _, _, _)
ScanReceipts(receipts, dl_mod_time, receipt_pkg, receipt_version) ==
    IF receipts = << >> THEN <<receipt_pkg, receipt_version>>
    ELSE LET r == Head(receipts)
         IN  IF r.mtime > dl_mod_time
             THEN IF r.versions = << >>
                  THEN \* IndexError: continue
                       ScanReceipts(Tail(receipts), dl_mod_time, receipt_pkg, receipt_version)
                  ELSE IF r.pkg_paths = << >>
                       THEN ScanReceipts(Tail(receipts), dl_mod_time, receipt_pkg,
                                         r.versions[Len(r.versions)])
                       ELSE ScanReceipts(Tail(receipts), dl_mod_time,
                                         r.pkg_paths[Len(r.pkg_paths)],
                                         r.versions[Len(r.versions)])
             ELSE ScanReceipts(Tail(receipts), dl_mod_time, receipt_pkg, receipt_version)

\* None for a path and for a version
NoPkg == << >>
NoVersion == ""

\* <<receipt_pkg, receipt_version>>, or the exception os.path.getmtime raises
\* when new_dl names no file (a single download row's path names one)
get_pkg_version_from_receipt(new_dl, env) ==
    IF Len(new_dl) # 1
    THEN [raised |-> "FileNotFoundError"]
    ELSE [raised |-> "",
          value |-> IF env.has_receipts_dir
                    THEN ScanReceipts(env.receipts, env.dl_mod_time, NoPkg, NoVersion)
                    ELSE <<NoPkg, NoVersion>>]

\* line 425: the joined names of the summary keys that match *pkg*
PkgSummaryKey(summary) ==
    SelectSeq(SummaryKeyOrder, LAMBDA k : k \in DOMAIN summary /\ MatchesPkg(k))

\* line 426: a joined name of two or more keys is longer than any key that
\* matched, so it is the name of no key; the empty name is no key either
PkgResults(summary) ==
    IF Len(PkgSummaryKey(summary)) = 1 THEN summary[PkgSummaryKey(summary)[1]] ELSE EmptyDict

\* lines 433-439: the joined paths of the download rows that match *pkg*
FringeBuild(dl_results) ==
    LET rows == dl_results.data_rows
        hit(i) == MatchesPkg(rows[i].download_path[1])
        RECURSIVE Pick(_)
        Pick(i) == IF i > Len(rows) THEN << >>
                   ELSE (IF hit(i) THEN rows[i].download_path ELSE << >>) \o Pick(i + 1)
    IN  Pick(1)

\* lines 445-451: the item the fringe case appends to built_items
FringeItem(fringe_build, receipt_pkg, receipt_version) ==
    IF receipt_pkg # NoPkg /\ receipt_version # NoVersion
    THEN [pkg_path |-> receipt_pkg, version |-> receipt_version]
    ELSE IF receipt_version # NoVersion
         THEN [pkg_path |-> fringe_build, version |-> receipt_version]
         ELSE [pkg_path |-> fringe_build]

\* _parse_report, lines 415-453
parse_report(file, env) ==
    LET loaded == plist_pal(file)
    IN  IF loaded.raised # "" THEN [raised |-> loaded.raised]
        ELSE
        LET report_data == loaded.value
            failed_items == GetOr(report_data, "failures", << >>)
            summary == GetOr(report_data, "summary_results", EmptyDict)
        IN  IF IsEmpty(summary)
            THEN [raised |-> "",
                  value |-> [built |-> << >>, downloaded |-> << >>, failed |-> failed_items]]
            ELSE
            LET pkg_results == PkgResults(summary)
                dl_results  == GetOr(summary, URL_DOWNLOADER, EmptyDict)
                built0      == GetOr(pkg_results, "data_rows", << >>)
                downloaded  == GetOr(dl_results, "data_rows", << >>)
                fringe      == IF ~IsEmpty(dl_results) /\ IsEmpty(pkg_results)
                               THEN FringeBuild(dl_results) ELSE << >>
            IN  IF fringe = << >>
                THEN [raised |-> "",
                      value |-> [built |-> built0, downloaded |-> downloaded,
                                 failed |-> failed_items]]
                ELSE LET rc == get_pkg_version_from_receipt(fringe, env)
                     IN  IF rc.raised # "" THEN [raised |-> rc.raised]
                         ELSE [raised |-> "",
                               value |-> [built |-> Append(built0,
                                                     FringeItem(fringe, rc.value[1], rc.value[2])),
                                          downloaded |-> downloaded,
                                          failed |-> failed_items]]

(***************************************************************************)
(* Reports the external tool may leave, and the receipts beside a download *)
(***************************************************************************)
PkgRow == [pkg_path |-> PathBuilt, version |-> "1.0"]
Rows(r) == [summary_text |-> "s", data_rows |-> r]
DlRow(p) == [download_path |-> p]
NO_RELEASES == "No releases found for repo"
\* `"No releases found for repo" in text`
MentionsNoReleases(text) == text = NO_RELEASES

Summary(keys, dl) ==
    [k \in keys |-> IF k = URL_DOWNLOADER THEN Rows(dl) ELSE Rows(<<PkgRow>>)]

ReportNothing == [failures |-> << >>, summary_results |-> EmptyDict]
ReportBuilt == [failures |-> << >>,
                    summary_results |-> Summary({URL_DOWNLOADER, "pkg_creator_summary_result"},
                                                <<DlRow(PathDmg)>>)]
ReportBuiltPkgDl == [failures |-> << >>,
                    summary_results |-> Summary({URL_DOWNLOADER, "pkg_copier_summary_result"},
                                                <<DlRow(PathPkg)>>)]
ReportTwoPkgKeys == [failures |-> << >>,
                    summary_results |-> Summary({URL_DOWNLOADER, "pkg_creator_summary_result",
                                                 "pkg_copier_summary_result"},
                                                <<DlRow(PathPkg)>>)]
ReportDmgOnly == [failures |-> << >>,
                    summary_results |-> Summary({URL_DOWNLOADER}, <<DlRow(PathDmg)>>)]
ReportPkgDl == [failures |-> << >>,
                    summary_results |-> Summary({URL_DOWNLOADER}, <<DlRow(PathDmg), DlRow(PathPkg)>>)]
ReportTwoPkgDl == [failures |-> << >>,
                    summary_results |-> Summary({URL_DOWNLOADER}, <<DlRow(PathPkg), DlRow(PathPkg2)>>)]
ReportNoReleases == [failures |-> <<[message |-> NO_RELEASES, traceback |-> "tb"]>>,
                    summary_results |-> EmptyDict]
ReportFailed == [failures |-> <<[message |-> "boom", traceback |-> "tb"]>>,
                    summary_results |-> EmptyDict]
ReportFailedBare == [failures |-> <<[recipe |-> "r"]>>, summary_results |-> EmptyDict]
ReportFailedDl == [failures |-> <<[message |-> "boom", traceback |-> "tb"]>>,
                    summary_results |-> Summary({URL_DOWNLOADER}, <<DlRow(PathPkg)>>)]

ReportSet == {ReportNothing, ReportBuilt, ReportBuiltPkgDl, ReportTwoPkgKeys, ReportDmgOnly,
              ReportPkgDl, ReportTwoPkgDl, ReportNoReleases, ReportFailed, ReportFailedBare,
              ReportFailedDl}

Receipt(t, vs, ps) == [mtime |-> t, versions |-> vs, pkg_paths |-> ps]
ReceiptEnvs ==
    {[dl_mod_time |-> 5, has_receipts_dir |-> FALSE, receipts |-> << >>],
     [dl_mod_time |-> 5, has_receipts_dir |-> TRUE, receipts |-> <<Receipt(5, <<"0.9">>, <<PathBuilt>>)>>],
     [dl_mod_time |-> 5, has_receipts_dir |-> TRUE, receipts |-> <<Receipt(6, <<"0.9", "1.0">>, <<PathBuilt>>)>>],
     [dl_mod_time |-> 5, has_receipts_dir |-> TRUE, receipts |-> <<Receipt(6, <<"1.0">>, << >>)>>],
     [dl_mod_time |-> 5, has_receipts_dir |-> TRUE, receipts |-> <<Receipt(6, << >>, <<PathBuilt>>)>>]}

(***************************************************************************)
(* Recipe, handle_recipe, _eval_recipe_results, slack_alert, main          *)
(***************************************************************************)
RecipeIds == {"A.recipe", "X.recipe"}
\* the identifiers glob finds a file for under RECIPES_DIR
OnDisk == {"A.recipe"}
\* Input/NAME of the recipe's plist
NameOf(id) == <<"NAME", id>>

\* Recipe.__init__, lines 343-356: StopIteration leaves only recipe_name and error
NewRecipeObject(id) ==
    IF id \in OnDisk
    THEN [recipe_name |-> id, path |-> <<"recipes", id>>, success |-> FALSE, error |-> FALSE,
          results |-> EmptyDict, has_run |-> FALSE]
    ELSE [recipe_name |-> id, error |-> TRUE]

\* lines 456-458: the report file after `if not os.path.isfile(...): touch()`
Touched(file) == IF file.kind = "absent" THEN [kind |-> "empty"] ELSE file

\* what the external tool does to the report file: it leaves it alone, or
\* writes a report
ToolWrites == {[wrote |-> FALSE]} \cup {[wrote |-> TRUE, report |-> r] : r \in ReportSet}

\* the report file after the tool ran
AfterTool(file, written) ==
    IF ~written.wrote THEN file ELSE [kind |-> "plist", data |-> written.report]

\* Recipe.run that returns once the non-zero exit is caught
RunOutcome_ReturnOnError(obj, file, exit_code, written, env) ==
    IF ~Has(obj, "path")
    THEN [raised |-> "AttributeError", obj |-> obj, report |-> Touched(file),
          invoked |-> FALSE, parsed |-> FALSE]
    ELSE LET after == AfterTool(Touched(file), written)
             o1    == [obj EXCEPT !.error = (exit_code # 0) \/ obj.error, !.has_run = TRUE]
             p     == parse_report(after, env)
         IN  IF exit_code # 0
             THEN [raised |-> "", obj |-> o1, report |-> after, invoked |-> TRUE, parsed |-> FALSE]
             ELSE IF p.raised # ""
             THEN [raised |-> p.raised, obj |-> o1, report |-> after,
                   invoked |-> TRUE, parsed |-> TRUE]
             ELSE [raised |-> "",
                   obj |-> [o1 EXCEPT !.results = p.value,
                                      !.success = (p.value.built # << >>) \/ o1.success],
                   report |-> after, invoked |-> TRUE, parsed |-> TRUE]

\* Recipe.run that sets error whenever nothing was built
RunOutcome_ErrorUnlessBuilt(obj, file, exit_code, written, env) ==
    IF ~Has(obj, "path")
    THEN [raised |-> "AttributeError", obj |-> obj, report |-> Touched(file),
          invoked |-> FALSE, parsed |-> FALSE]
    ELSE LET after == AfterTool(Touched(file), written)
             o1    == [obj EXCEPT !.error = (exit_code # 0) \/ obj.error, !.has_run = TRUE]
             p     == parse_report(after, env)
         IN  IF p.raised # ""
             THEN [raised |-> p.raised, obj |-> o1, report |-> after,
                   invoked |-> TRUE, parsed |-> TRUE]
             ELSE [raised |-> "",
                   obj |-> [o1 EXCEPT !.results = p.value,
                                      !.success = (p.value.built # << >>) \/ o1.success,
                                      !.error = (p.value.built = << >>) \/ o1.error],
                   report |-> after, invoked |-> TRUE, parsed |-> TRUE]

\* Recipe.run, lines 455-485, for the tool's exit code and what it wrote
RunOutcome(obj, file, exit_code, written, env) ==
    IF ~Has(obj, "path")
    THEN \* self.path raises AttributeError while the command is built
         [raised |-> "AttributeError", obj |-> obj, report |-> Touched(file),
          invoked |-> FALSE, parsed |-> FALSE]
    ELSE LET after == AfterTool(Touched(file), written)
             o1    == [obj EXCEPT !.error = (exit_code # 0) \/ obj.error, !.has_run = TRUE]
             p     == parse_report(after, env)
         IN  IF p.raised # ""
             THEN [raised |-> p.raised, obj |-> o1, report |-> after,
                   invoked |-> TRUE, parsed |-> TRUE]
             ELSE [raised |-> "",
                   obj |-> [o1 EXCEPT !.results = p.value,
                                      !.success = (p.value.built # << >>) \/ o1.success],
                   report |-> after, invoked |-> TRUE, parsed |-> TRUE]

\* re.search(r"([0-9](.*)[0-9])", last_build) on the paths that occur
ScrapeVersion(last_build) ==
    IF last_build = PathPkg THEN "2.1"
    ELSE IF last_build = PathBuilt THEN "1.0"
    ELSE "Unknown"

\* _eval_recipe_results, lines 261-297: a pair, None, or an exception
Pair(t, d) == [kind |-> "pair", title |-> t, description |-> d]
NoText == << >>
eval_recipe_results(obj) ==
    IF obj.error
    THEN IF ~Has(obj, "path")
         THEN \* recipe.name raises AttributeError, caught at line 277
              Pair(<<"ERROR: Unable to locate specified recipe!">>,
                   <<"Skipping run of", obj.recipe_name>>)
         ELSE IF ~Has(obj.results, "failed") THEN [kind |-> "raise", exc |-> "KeyError"]
         ELSE IF obj.results.failed = << >>
         THEN Pair(<<"Failed to run", NameOf(obj.recipe_name)>>, <<"Unknown error">>)
         ELSE LET first == obj.results.failed[1]
              IN  IF ~Has(first, "message") \/ ~Has(first, "traceback")
                  THEN [kind |-> "raise", exc |-> "KeyError"]
                  ELSE IF MentionsNoReleases(first.message) \/ MentionsNoReleases(first.traceback)
                  THEN [kind |-> "none"]
                  ELSE Pair(<<"Failed to run", NameOf(obj.recipe_name)>>,
                            <<"ERROR", first.message, first.traceback>>)
    ELSE IF obj.success
    THEN LET last == obj.results.built[Len(obj.results.built)]
         IN  IF ~Has(last, "version") /\ ~Has(last, "pkg_path")
             THEN [kind |-> "raise", exc |-> "TypeError"]
             ELSE Pair(<<"SUCCESS", NameOf(obj.recipe_name),
                         IF Has(last, "version") THEN last.version
                         ELSE ScrapeVersion(last.pkg_path)>>,
                       <<"Build Path(s)">>)
    ELSE Pair(NoText, NoText)

\* slack_alert, lines 300-337: what it raises, whether it evaluated the
\* recipe, and the message it posted
slack_alert(obj, dbg, hook, status_code) ==
    IF dbg \/ ~hook
    THEN [raised |-> "", evaluated |-> FALSE, posted |-> FALSE]
    ELSE LET r == eval_recipe_results(obj)
         IN  CASE r.kind = "raise" ->
                    [raised |-> r.exc, evaluated |-> TRUE, eval |-> r, posted |-> FALSE]
               [] r.kind = "none" ->
                    \* unpacking None into two names
                    [raised |-> "TypeError", evaluated |-> TRUE, eval |-> r, posted |-> FALSE]
               [] OTHER ->
                    IF r.title # NoText /\ r.description # NoText
                    THEN [raised |-> IF status_code # 200 THEN "ValueError" ELSE "",
                          evaluated |-> TRUE, eval |-> r, posted |-> TRUE,
                          status |-> status_code,
                          post |-> [title |-> r.title, text |-> r.description,
                                    color |-> IF obj.error THEN "danger" ELSE "good"]]
                    ELSE [raised |-> "", evaluated |-> TRUE, eval |-> r, posted |-> FALSE]

(***************************************************************************)
(* The loop of main(), lines 502-514                                       *)
(***************************************************************************)
NoHistory == [invoked |-> FALSE, exit_code |-> 0, parsed |-> FALSE, parse_raised |-> "",
              report_at_invoke |-> [kind |-> "absent"], parse_value |-> EmptyDict,
              alerts |-> << >>]
NoRecipe == << >>

\* `for recipe in recipes`: map(Recipe, recipe_list) builds the next object,
\* the one before it is garbage
NextRecipe ==
    /\ mpc = "loop"
    /\ idx < Len(recipe_list)
    /\ recipe' = NewRecipeObject(recipe_list[idx + 1])
    /\ hist' = NoHistory
    /\ mpc' = "handle"
    /\ UNCHANGED <<debug, webhook, recipe_list, idx, report, posts, uncaught>>
    /\ UNCHANGED <<cacheFile, replVars, recVars, scanVars>>

\* handle_recipe(recipe, args), lines 158-165, with Recipe.run inside
HandleRecipe ==
    /\ mpc = "handle"
    /\ \E exit_code \in {0, 70}, written \in ToolWrites, env \in ReceiptEnvs :
          LET r == RunOutcome(recipe, report, exit_code, written, env)
              p == parse_report(AfterTool(Touched(report), written), env)
          IN  /\ recipe' = r.obj
              /\ report' = r.report
              /\ hist' = [hist EXCEPT !.invoked = r.invoked,
                                      !.exit_code = IF r.invoked THEN exit_code ELSE 0,
                                      !.parsed = r.parsed,
                                      !.parse_raised = IF r.parsed THEN r.raised ELSE "",
                                      !.report_at_invoke = IF r.invoked THEN Touched(report) ELSE @,
                                      !.parse_value = IF r.invoked /\ p.raised = ""
                                                      THEN p.value ELSE @]
              /\ IF r.raised = "" THEN mpc' = "alert" /\ uncaught' = uncaught
                 ELSE IF r.raised = "AttributeError" THEN mpc' = "except" /\ uncaught' = uncaught
                 ELSE mpc' = "crashed" /\ uncaught' = r.raised
    /\ UNCHANGED <<debug, webhook, recipe_list, idx, posts>>
    /\ UNCHANGED <<cacheFile, replVars, recVars, scanVars>>

\* response.status_code of the webhook's answers
StatusCodes == {200, 204, 500}

\* slack_alert(recipe, args) at line 506, or at line 513 in the handler of
\* AttributeError; an exception it raises leaves main()
SlackAlert ==
    /\ mpc \in {"alert", "except"}
    /\ \E status_code \in StatusCodes :
          LET a == slack_alert(recipe, debug, webhook, status_code)
          IN  /\ hist' = [hist EXCEPT !.alerts = Append(@, a)]
              /\ posts' = IF a.posted THEN posts + 1 ELSE posts
              /\ IF a.raised = ""
                 THEN /\ mpc' = "loop" /\ idx' = idx + 1 /\ uncaught' = uncaught
                 ELSE /\ mpc' = "crashed" /\ idx' = idx /\ uncaught' = a.raised
    /\ UNCHANGED <<debug, webhook, recipe_list, recipe, report>>
    /\ UNCHANGED <<cacheFile, replVars, recVars, scanVars>>

\* the list is exhausted: main() returns
MainReturns ==
    /\ mpc = "loop"
    /\ idx = Len(recipe_list)
    /\ mpc' = "done"
    /\ UNCHANGED <<debug, webhook, recipe_list, idx, recipe, hist, report, posts, uncaught>>
    /\ UNCHANGED <<cacheFile, replVars, recVars, scanVars>>

RecipeLists == UNION {[1..n -> RecipeIds] : n \in 1..MaxRecipes}

MainInit ==
    /\ debug \in BOOLEAN
    /\ webhook \in BOOLEAN
    /\ recipe_list \in RecipeLists
    /\ idx = 0
    /\ mpc = "loop"
    /\ recipe = NoRecipe
    /\ hist = NoHistory
    /\ report \in {[kind |-> "absent"], [kind |-> "plist", data |-> ReportBuilt]}
    /\ posts = 0
    /\ uncaught = ""

MainIdle ==
    /\ debug = FALSE
    /\ webhook = FALSE
    /\ recipe_list = << >>
    /\ idx = 0
    /\ mpc = "idle"
    /\ recipe = NoRecipe
    /\ hist = NoHistory
    /\ report = [kind |-> "absent"]
    /\ posts = 0
    /\ uncaught = ""

(***************************************************************************)
(* The receipt loop of Recipe._get_pkg_version_from_receipt, lines 370-413,*)
(* one receipt per step                                                    *)
(***************************************************************************)
\* the receipts a receipts directory may hold: older or newer than the
\* download, with the values of the `version` and `pkg_path` keys in order
ReceiptSet ==
    {Receipt(t, vs, ps) : t \in {5, 6},
                          vs \in {<< >>, <<"1.1">>, <<"0.9", "1.0">>},
                          ps \in {<< >>, <<PathBuilt>>, <<PathPkg, PathPkg2>>}}
ReceiptLists == UNION {[1..n -> ReceiptSet] : n \in 0..MaxReceipts}

\* one pass of `for receipt in os.scandir(...)`, lines 386-412
ScanReceipt ==
    /\ spc = "scan"
    /\ has_receipts
    /\ rpos < Len(rcpts)
    /\ LET got == ScanReceipts(<<rcpts[rpos + 1]>>, dl_mtime, found_pkg, found_version)
       IN  /\ found_pkg' = got[1]
           /\ found_version' = got[2]
    /\ rpos' = rpos + 1
    /\ UNCHANGED <<dl_mtime, has_receipts, rcpts, spc>>
    /\ UNCHANGED <<cacheFile, replVars, recVars, mainVars>>

\* line 413: no receipts directory, or the directory is exhausted
ScanReturns ==
    /\ spc = "scan"
    /\ ~has_receipts \/ rpos = Len(rcpts)
    /\ spc' = "returned"
    /\ UNCHANGED <<dl_mtime, has_receipts, rcpts, rpos, found_pkg, found_version>>
    /\ UNCHANGED <<cacheFile, replVars, recVars, mainVars>>

ScanInit ==
    /\ dl_mtime = 5
    /\ has_receipts \in BOOLEAN
    /\ rcpts \in ReceiptLists
    /\ ~has_receipts => rcpts = << >>
    /\ rpos = 0
    /\ found_pkg = NoPkg
    /\ found_version = NoVersion
    /\ spc = "scan"

ScanIdle ==
    /\ dl_mtime = 0
    /\ has_receipts = FALSE
    /\ rcpts = << >>
    /\ rpos = 0
    /\ found_pkg = NoPkg
    /\ found_version = NoVersion
    /\ spc = "idle"

(***************************************************************************)
(* Specifications                                                          *)
(***************************************************************************)
vars == <<cacheFile, replVars, recVars, mainVars, scanVars>>

InitRepl == cacheFile \in CacheFiles /\ ReplInit /\ RecIdle /\ MainIdle /\ ScanIdle
NextRepl == LoadCachedAttributes \/ EnterEntry \/ ReplicateRecord \/ ReplicationReturns
SpecRepl == InitRepl /\ [][NextRepl]_vars

InitRec == cacheFile \in RecCacheFiles /\ RecInit /\ ReplIdle /\ MainIdle /\ ScanIdle
NextRec == ProcessorMain
SpecRec == InitRec /\ [][NextRec]_vars

InitMain == cacheFile = [kind |-> "missing"] /\ MainInit /\ ReplIdle /\ RecIdle /\ ScanIdle
NextMain == NextRecipe \/ HandleRecipe \/ SlackAlert \/ MainReturns
SpecMain == InitMain /\ [][NextMain]_vars


InitScan == cacheFile = [kind |-> "missing"] /\ ScanInit /\ ReplIdle /\ RecIdle /\ MainIdle
NextScan == ScanReceipt \/ ScanReturns
SpecScan == InitScan /\ [][NextScan]_vars

(***************************************************************************)
(* Claims about the cache load and the placeholder replication (SpecRepl)  *)
(***************************************************************************)
\* the records of the loaded mapping, entry by entry
RECURSIVE CountRecords(_, _)
CountRecords(d, keys) ==
    IF keys = << >> THEN 0
    ELSE (IF Has(d[Head(keys)], "download_metadata")
          THEN Len(d[Head(keys)].download_metadata) ELSE 0)
         + CountRecords(d, Tail(keys))

\* log line i is a record whose placeholder was written
Written(i) == rlog[i].outcome = ""

\* the attribute is on the file at path p
HasAttr(p, a) == p \in DOMAIN fs /\ a \in DOMAIN fs[p].xattrs

\* size and provenance attributes of the file of log line i agree with the record
PlaceholderMatches(i) ==
    LET e == rlog[i]
    IN  /\ e.path \in DOMAIN fs
        /\ SizeStr(fs[e.path].size) = e.rec.dl_size_in_bytes
        /\ HasAttr(e.path, ETAG_ATTR) <=> Truthy(e.rec, "etag")
        /\ HasAttr(e.path, LASTMOD_ATTR) <=> Truthy(e.rec, "last_modified")

\* C2: loading the cache never raises: a missing file and any malformed
\* content (an empty file included) load as the empty mapping.
C2_LoadNeverRaises ==
    /\ rpc # "load_raised"
    /\ (rpc \in {"loop", "done", "repl_raised"} /\ cacheFile.kind # "json")
          => attributes_dict = EmptyMapping

\* C4: no record's failure aborts the batch: replication never raises, and
\* when it returns every record of every cache entry went through the loop.
C4_NoRecordAbortsBatch ==
    /\ rpc # "repl_raised"
    /\ rpc = "done" => Len(rlog) = CountRecords(attributes_dict, KeysOf(attributes_dict))

\* C5 as stated: after replication, for every cached record with a pathname
\* the placeholder has the record's size, the etag attribute iff the record's
\* etag is non-empty and the last-modified attribute iff its last_modified is.
C5_EveryRecordMatches ==
    rpc = "done" =>
        \A i \in 1..Len(rlog) : Has(rlog[i].rec, "pathname") => PlaceholderMatches(i)

\* C5 amended: a record that replication wrote, to a path that no other
\* record was written to and where no file was before, has a placeholder of
\* the record's size, with each attribute present iff its field is non-empty.
C5_SoleWriterMatches ==
    \A i \in 1..Len(rlog) :
        ( /\ Written(i)
          /\ rlog[i].path \notin DOMAIN fs0
          /\ \A j \in 1..Len(rlog) : (j # i /\ Written(j)) => rlog[j].path # rlog[i].path )
        => PlaceholderMatches(i)

\* a sole writer carrying a last_modified but no etag has been replicated,
\* next to another written record
C5_Witness ==
    /\ rpc = "done"
    /\ \E i, j \in 1..Len(rlog) :
          /\ i # j /\ Written(i) /\ Written(j)
          /\ rlog[i].path # rlog[j].path
          /\ rlog[i].path \notin DOMAIN fs0
          /\ ~Truthy(rlog[i].rec, "etag") /\ Truthy(rlog[i].rec, "last_modified")
          /\ rlog[i].rewritten

\* the short name the path records: the text between the first "/Users/" and
\* the "/Library" that follows it
RecordsShortName(cache_path) ==
    /\ PyFind(cache_path, USERS_PREFIX) >= 0
    /\ PyRFind(cache_path, LIBRARY_DIR) >= PyFind(cache_path, USERS_PREFIX) + Len(USERS_PREFIX)

\* C6: the home-directory rewrite fires iff the path records a short name
\* and it differs from the console user's; otherwise the path is unchanged.
C6_RewriteIffShortNameDiffers ==
    \A i \in 1..Len(rlog) :
        Has(rlog[i].rec, "pathname") =>
            LET cache_path == PathSplit(rlog[i].rec.pathname)[1]
                differs    == /\ RecordsShortName(cache_path)
                              /\ TargetHomeDir(cache_path) # console_user
            IN  /\ rlog[i].rewritten <=> differs
                /\ ~differs => rlog[i].path = rlog[i].rec.pathname

(***************************************************************************)
(* Claims about the processor (SpecRec)                                    *)
(***************************************************************************)
\* the entries a cache file holds: a file that is not JSON holds none
Persisted(file) == IF file.kind = "json" THEN file.data ELSE EmptyMapping

\* C7: the bonus-download scan returns no record for the known primary
\* pathname and none for a file of at most 500,000 bytes.
C7_BonusExcludesPrimaryAndSmall ==
    \A i \in 1..Len(lastRun.bonus) :
        /\ lastRun.bonus[i].pathname # lastRun.in.pathname
        /\ \A f \in lastRun.in.files :
              f.path = lastRun.bonus[i].pathname => f.size > MIN_DL_SIZE

\* a scan that returned a record while the directory held the primary
\* download and a file of exactly 500,000 bytes
C7_Witness ==
    /\ runs > 0
    /\ lastRun.scanned
    /\ lastRun.bonus # << >>
    /\ FilePart \in lastRun.in.files
    /\ \E f \in lastRun.in.files : f.path = lastRun.in.pathname /\ f.size > MIN_DL_SIZE

\* C8: after a processor run for recipe R every entry under another recipe
\* file name is in the persisted cache exactly as before the run.
C8_OtherKeysUntouched ==
    runs > 0 =>
        \A k \in RecipeFiles \ {RecipeFilename(lastRun.in.RECIPE_PATH)} :
            /\ k \in DOMAIN Persisted(cacheFile) <=> k \in DOMAIN Persisted(cacheBefore)
            /\ k \in DOMAIN Persisted(cacheBefore)
                  => Persisted(cacheFile)[k] = Persisted(cacheBefore)[k]

\* a run that changed R's entry next to another recipe's entry
C8_Witness ==
    /\ runs > 0
    /\ ~lastRun.raised
    /\ LET rf == RecipeFilename(lastRun.in.RECIPE_PATH)
       IN  /\ \E k \in RecipeFiles \ {rf} : k \in DOMAIN Persisted(cacheBefore)
           /\ rf \in DOMAIN Persisted(cacheBefore)
           /\ Persisted(cacheFile)[rf] # Persisted(cacheBefore)[rf]

\* C17: cache_timestamp is set only when an attribute changed: a processor
\* run that records for recipe R exactly the download metadata its entry
\* already held leaves the entry's cache_timestamp as it was.
C17_TimestampOnlyOnChange ==
    (runs > 0 /\ ~lastRun.raised) =>
        LET rf == RecipeFilename(lastRun.in.RECIPE_PATH)
        IN  ( /\ rf \in DOMAIN Persisted(cacheBefore)
              /\ Persisted(cacheFile)[rf].download_metadata
                    = Persisted(cacheBefore)[rf].download_metadata )
            => Persisted(cacheFile)[rf].cache_timestamp
                  = Persisted(cacheBefore)[rf].cache_timestamp

(***************************************************************************)
(* Claims about the recipe loop (SpecMain)                                 *)
(***************************************************************************)
\* the loop variable holds a Recipe object
HasRecipe == DOMAIN recipe # {}
\* the tool was invoked for the current recipe and exited non-zero
ToolFailed == hist.invoked /\ hist.exit_code # 0

HasPkgSummary(data) ==
    \E k \in DOMAIN GetOr(data, "summary_results", EmptyDict) : MatchesPkg(k)

\* item is a data row of one of the report's package summaries
IsPkgSummaryRow(data, item) ==
    \E k \in DOMAIN data.summary_results :
        /\ MatchesPkg(k)
        /\ \E j \in 1..Len(data.summary_results[k].data_rows) :
              data.summary_results[k].data_rows[j] = item

\* C3: with a package-summary result in the report no download is promoted
\* to a built item: every built item is a row of a package summary.
C3_NoFringeWithPkgSummary ==
    (hist.parsed /\ hist.parse_raised = "" /\ HasPkgSummary(report.data)) =>
        \A i \in 1..Len(recipe.results.built) :
            IsPkgSummaryRow(report.data, recipe.results.built[i])

\* the current recipe failed and its first failure message has the
\* "No releases found for repo" text
NoReleasesFailure ==
    /\ hist.alerts # << >>
    /\ recipe.error
    /\ Has(recipe, "results")
    /\ Has(recipe.results, "failed")
    /\ recipe.results.failed # << >>
    /\ Has(recipe.results.failed[1], "message")
    /\ MentionsNoReleases(recipe.results.failed[1].message)

\* C9: for such a recipe the notification step produces no title or
\* description, posts nothing, raises nothing, and the loop goes on.
C9_NoReleasesIsBenign ==
    NoReleasesFailure =>
        /\ mpc # "crashed"
        /\ \A i \in 1..Len(hist.alerts) :
              /\ hist.alerts[i].raised = ""
              /\ ~hist.alerts[i].posted
              /\ hist.alerts[i].evaluated => hist.alerts[i].eval.kind = "none"

\* C10: a recipe that matches no file has error set, the tool is not invoked
\* for it, no report is parsed for it, and the loop goes on to the next recipe.
C10_NotFoundSkippedLoopProceeds ==
    (HasRecipe /\ ~Has(recipe, "path")) =>
        /\ recipe.error
        /\ ~hist.invoked
        /\ ~hist.parsed
        /\ mpc # "crashed"

\* the report of the current recipe was parsed and the parse returned
ParsedOk == hist.parsed /\ hist.parse_raised = ""

\* C11 as stated: once the report is parsed the recipe has success set iff
\* built is non-empty, and has error set in every other case.
C11_SucceededIffBuiltElseFailed ==
    ParsedOk =>
        /\ recipe.success <=> recipe.results.built # << >>
        /\ ~recipe.success => recipe.error

\* C11 amended: once the report is parsed the recipe has success set iff
\* built is non-empty, and has error set iff the tool exited non-zero; with
\* nothing built and a zero exit neither flag is set.
C11_SuccessIffBuiltErrorIffExit ==
    ParsedOk =>
        /\ recipe.success <=> recipe.results.built # << >>
        /\ recipe.error <=> hist.exit_code # 0

\* the tool exited zero, the report was parsed, nothing was built and the
\* recipe has neither flag set
C11_Witness ==
    /\ ParsedOk
    /\ mpc = "alert"
    /\ hist.exit_code = 0
    /\ recipe.results.built = << >>
    /\ ~recipe.success /\ ~recipe.error

\* C12: a notification that the webhook answers with a non-2xx status fails
\* that recipe's notification step only, the loop goes on to the remaining
\* recipes; an answer with a 2xx status is not treated as a failure.
C12_NotificationFailureIsLocal ==
    \A i \in 1..Len(hist.alerts) :
        hist.alerts[i].posted =>
            /\ hist.alerts[i].status \notin 200..299 => mpc # "crashed"
            /\ hist.alerts[i].status \in 200..299 => hist.alerts[i].raised = ""

\* C13: a failed recipe whose outcome has no usable failure message (no
\* failures, or a first failure without message or traceback) evaluates to
\* the "Unknown error" text, nothing is raised.
C13_MissingMessageIsUnknownError ==
    (HasRecipe /\ Has(recipe, "path") /\ recipe.error /\ ParsedOk) =>
        \A i \in 1..Len(hist.alerts) :
            ( /\ hist.alerts[i].evaluated
              /\ \/ recipe.results.failed = << >>
                 \/ ~Has(recipe.results.failed[1], "message")
                 \/ ~Has(recipe.results.failed[1], "traceback") )
            => /\ hist.alerts[i].eval.kind = "pair"
               /\ hist.alerts[i].eval.description = <<"Unknown error">>

\* the download rows of the report the current recipe's parse read
DownloadRows(data) ==
    GetOr(GetOr(GetOr(data, "summary_results", EmptyDict), URL_DOWNLOADER, EmptyDict),
          "data_rows", << >>)

\* downloads occurred, no package summary was produced, and a downloaded
\* row's path looks like a package file
FringeCase(data) ==
    /\ ~HasPkgSummary(data)
    /\ \E j \in 1..Len(DownloadRows(data)) : MatchesPkg(DownloadRows(data)[j].download_path[1])

\* C14: in the fringe case _parse_report appends exactly one entry to built:
\* the receipt's pkg_path and version, or a single download row's path as
\* pkg_path, with the version when it resolved and without the key when not.
C14_FringeAppendsOneDownloadRow ==
    (hist.parsed /\ report.kind = "plist" /\ FringeCase(report.data)) =>
        /\ hist.parse_raised = ""
        /\ Len(hist.parse_value.built) = 1
        /\ LET item == hist.parse_value.built[1]
           IN  \/ /\ Has(item, "version")
                  /\ item.pkg_path = PathBuilt
               \/ \E j \in 1..Len(DownloadRows(report.data)) :
                      /\ MatchesPkg(DownloadRows(report.data)[j].download_path[1])
                      /\ item.pkg_path = DownloadRows(report.data)[j].download_path

\* C15: whenever Recipe.run invokes the external tool the report file
\* exists and is empty, for the first recipe and for every later one.
C15_ReportEmptyAtInvocation ==
    hist.invoked => hist.report_at_invoke.kind = "empty"

\* C18: no recipe of the run loop has both its success flag and its error
\* flag set; a recipe whose tool run exited non-zero never has success set.
C18_NeverSuccessAndError ==
    (HasRecipe /\ Has(recipe, "success")) =>
        /\ ~(recipe.success /\ recipe.error)
        /\ ToolFailed => ~recipe.success

(***************************************************************************)
(* Claims about the receipt scan (SpecScan)                                *)
(***************************************************************************)
\* C16: version and pkg_path resolve independently: once the loop is through
\* with a qualifying receipt (newer than the download), the pkg_path is the
\* receipt's last pkg_path if it has one, whether or not it has a version,
\* and the version is its last version if it has one.
C16_VersionAndPkgPathIndependent ==
    rpos > 0 =>
        LET r == rcpts[rpos]
        IN  r.mtime > dl_mtime =>
                /\ r.pkg_paths # << >> => found_pkg = r.pkg_paths[Len(r.pkg_paths)]
                /\ r.versions # << >> => found_version = r.versions[Len(r.versions)]

=============================================================================
